---- MODULE Spec2Model ----
(***************************************************************************)
(* A model of the dom-flip custom element (the FLIP position-diff          *)
(* animation engine): the element class DomFlip of element.ts together     *)
(* with the helpers of utils.ts, run on a browser event loop (tasks,       *)
(* microtasks, animation frames and paints).                               *)
(*                                                                         *)
(* Numbers.  Lengths, scales and opacities are exact fixed-point numbers:  *)
(* the integer k stands for k / One.  One is chosen so that the tolerance  *)
(* epsilon = 1e-5 of isCloseTo is exactly Res units.  Arithmetic is exact  *)
(* (no floating-point rounding).                                           *)
(***************************************************************************)
EXTENDS Integers, Sequences, FiniteSets, TLC

\* ------------------------------------------------------------------ bounds

\* Numeric resolution: model units per epsilon (1e-5).
Res == 2
\* Host operations (DOM changes, property writes, refresh calls) per behaviour.
MaxHostSteps == 3
\* Host operations per behaviour where progress of the event loop is checked.
LiveHostSteps == 2
\* Host operations per behaviour where DOM primitives of a child may throw.
FaultHostSteps == 2
BatchHostSteps == 4
TimerHostSteps == 4

\* --------------------------------------------------------------- constants

\* 1 / epsilon, epsilon being the default margin of isCloseTo (1e-5).
InvEps == 100000
\* The number 1.0 in model units.
One == Res * InvEps
\* epsilon in model units.
Epsilon == One \div InvEps

Abs(x) == IF x < 0 THEN 0 - x ELSE x

\* --------------------------------------------------------- utils.ts helpers

\* An exact quotient a / b, kept as a fraction (b = 0: Infinity or NaN).
Quot(a, b) == [num |-> a, den |-> b]
\* A plain number x (in model units) as a fraction.
Num(x) == [num |-> x, den |-> One]

\* isCloseTo(actual, target) with the default epsilon; actual is a fraction,
\* target a whole number (0 or 1).  |num/den - target| <= 1/InvEps; a
\* comparison with Infinity or NaN is false.
isCloseTo_Strict(actual, target) ==
    /\ actual.den # 0
    /\ Abs(actual.num - target * actual.den) < Abs(actual.den) \div InvEps
isCloseTo(actual, target) ==
    /\ actual.den # 0
    /\ Abs(actual.num - target * actual.den) <= Abs(actual.den) \div InvEps

\* Number-to-string conversion of a template literal / String(x): the decimal
\* numeral of x / One, as sign, integer part and fractional part (in units).
NumToString(x) ==
    [neg |-> x < 0, int |-> Abs(x) \div One, frac |-> Abs(x) % One]

\* generateTransformString(dx, dy, sx, sy):
\* `translate(${dx}px, ${dy}px) scale(${sx}, ${sy})`
generateTransformString_Swapped(dx, dy, sx, sy) ==
    << "translate(", NumToString(dy), "px, ", NumToString(dx), "px) scale(",
       NumToString(sx), ", ", NumToString(sy), ")" >>
generateTransformString(dx, dy, sx, sy) ==
    << "translate(", NumToString(dx), "px, ", NumToString(dy), "px) scale(",
       NumToString(sx), ", ", NumToString(sy), ")" >>

\* -------------------------------------------------------- the host's DOM

\* The nodes that can be slotted into the element: two elements and a text node.
El == {"e1", "e2"}
TextNodes == {"t1"}
Nodes == El \cup TextNodes
\* el instanceof HTMLElement
IsHTMLElement(node) == node \in El

\* Identity values; NoId is a missing attribute (getAttribute gives null).
Ids == {"a", "b"}
NoId == "null"
\* The attribute names the host may configure as identity attribute.
DefaultAttrName == "data-flip-id"
AttrNames == {DefaultAttrName, "data-alt-id"}

\* The computed transform of an element: "none" (the empty tuple) or the six
\* components of matrix(a, b, c, d, e, f), as the strings of the computed style.
NoTransform == << >>
Matrix(a, d) == << a, "0", "0", d, "0", "0" >>
\* A rotated or translated element: its matrix is not a pure scale.
Skewed == << "0", "1", "-1", "0", "0", "0" >>

\* What the layout source reports for an element: its offset from the
\* container's box, its computed transform and its computed opacity.
Px(n) == n * One
Layouts ==
    { [top |-> 0, left |-> 0,       transform |-> NoTransform,      opacity |-> "1"],
      [top |-> 0, left |-> Px(100), transform |-> NoTransform,      opacity |-> "1"],
      [top |-> 0, left |-> 0,       transform |-> Matrix("2", "1"), opacity |-> "1"],
      [top |-> 0, left |-> 0,       transform |-> NoTransform,      opacity |-> "0.5"] }
InitialLayout == [top |-> 0, left |-> 0, transform |-> NoTransform, opacity |-> "1"]

\* Where the container's own box may sit in the viewport.
BBoxes == { [top |-> Px(50), left |-> Px(8)] }

\* Number.parseFloat on the numerals the computed styles above can hold.
parseFloat(s) ==
    CASE s = "1.0" -> One
      [] s = "1"   -> One
      [] s = "2"   -> 2 * One
      [] s = "0.5" -> One \div 2
      [] s = "0"   -> 0

\* transformRegex: matrix\((-?\d*\.?\d+),\s*0,\s*0,\s*(-?\d*\.?\d+),\s*0,\s*0\)
\* matches a matrix whose b, c, e and f are the numeral 0.
transformRegexMatches(t) ==
    /\ Len(t) = 6
    /\ t[2] = "0" /\ t[3] = "0" /\ t[5] = "0" /\ t[6] = "0"

\* ------------------------------------------------------------------ state

VARIABLES
    \* the browser
    engine,          \* "WebKitEdgeHTML" or "other": what navigator reports
    microQ,          \* the microtask queue
    frameQ,          \* animation frame callbacks waiting for the next frame
    runQ,            \* callbacks of the frame that is being run
    inFrame,         \* a frame is being run
    moRecords,       \* mutation records are queued for _childObserver
    slotSignal,      \* a slotchange event is due for the slot
    throwing,        \* per element: the DOM primitive that throws for it, if any
    \* the host's DOM
    bbox,            \* the container's bounding box
    slotted,         \* _slot.assignedNodes(), in order
    attr,            \* the identity attributes of the elements
    layout,          \* what the layout source reports for each element
    style,           \* each element's inline transform and opacity, and marker class
    budget,          \* host operations left
    \* the DomFlip instance
    connected,       \* connectedCallback has run (_slot is set)
    active,          \* _active
    attrName,        \* _attrName
    animationEnqueued, \* _animationEnqueued
    childData,       \* _childData: identity -> [el, data]
    listening,       \* the slotchange and dom-change listeners are registered
    observed,        \* the elements _childObserver observes
    observedAttr,    \* the attributeFilter of those observations
    \* history: the signals merged into the current (or last) coalescing window
    \* and the passes run for it
    window,
    \* history: what the host changed since _childData was last stored, and
    \* whether the last pass ran with nothing changed since that store
    store,
    \* history: a signalled change of the children or of an identity attribute
    \* that no pass has collected yet
    unseen,
    \* inputs and result of the change test checked on its own
    tOld, tNew, tOut,
    \* the configurable release of the element (src/src/element.ts, first class)
    className,       \* this.transitionClassName
    durationMs,      \* this.durationMs
    timers,          \* the setTimeout callbacks that have not fired
    slotStale        \* _render() has replaced the slot that _slot refers to

browserVars == << engine, throwing, microQ, frameQ, runQ, inFrame, moRecords,
                  slotSignal >>
domVars     == << bbox, slotted, attr, layout, style, budget >>
flipVars    == << connected, active, attrName, animationEnqueued, childData,
                  listening, observed, observedAttr, window >>
histVars    == << store, unseen >>
testVars    == << tOld, tNew, tOut >>
cfgVars     == << className, durationMs, timers, slotStale >>
vars        == << browserVars, domVars, flipVars, histVars, testVars, cfgVars >>

\* The marker class name ('dom-flip-transitioning').
transitionClassName == "dom-flip-transitioning"

\* The configurable release keeps the marker class name and the transition
\* duration in fields: their defaults, and the values a host may set.
DefaultDurationMs == 200
ClassNames == {transitionClassName, "moving"}
Durations == {DefaultDurationMs, 500}

\* An element's inline style as the engine leaves it: nothing written.
NoStyle == [transform |-> << >>, opacity |-> << >>, classes |-> {}]

\* Callbacks (closures) handed to the microtask queue or to requestAnimationFrame.
PassCb    == [kind |-> "pass",    el |-> "-", n |-> << >>, painted |-> FALSE]
RefreshCb == [kind |-> "refresh", el |-> "-", n |-> << >>, painted |-> FALSE]
NotifyCb  == [kind |-> "notify",  el |-> "-", n |-> << >>, painted |-> FALSE]
\* (history: first marks the play callback a pass requests first)
PlayCb(el, n) ==
    [kind |-> "play", el |-> el, n |-> << n >>, painted |-> FALSE, first |-> FALSE]

\* batchCallback: microtask timing in WebKit and EdgeHTML, requestAnimationFrame
\* in all other browsers.
UsesMicrotask == engine = "WebKitEdgeHTML"
\* In WebKit and EdgeHTML the animation frame callbacks run after rendering.
RafAfterRender == engine = "WebKitEdgeHTML"

\* ------------------------------------------- DOM primitives that throw

\* For one element: its read primitive (getBoundingClientRect) throws, its
\* write primitive (the style setter) throws, or neither.
Faults == {"none", "read", "write"}
NoFaults == [el \in El |-> "none"]
ReadThrows(el) == throwing[el] = "read"
WriteThrows(el) == throwing[el] = "write"

\* --------------------------------------------------- _collectChildData

\* el.getBoundingClientRect(): the element's box in the viewport; the children
\* sit inside the container and move with it.
getBoundingClientRect(el) ==
    [top |-> bbox.top + layout[el].top, left |-> bbox.left + layout[el].left]

\* The ChildData of one element (the body of the loop of _collectChildData).
ChildDataOf(el) ==
    LET elemBox == getBoundingClientRect(el)
        styles  == layout[el]
        matches == transformRegexMatches(styles.transform)
        scaleX  == IF matches THEN styles.transform[1] ELSE "1.0"
        scaleY  == IF matches THEN styles.transform[4] ELSE "1.0"
    IN  [top     |-> elemBox.top - bbox.top,
         left    |-> elemBox.left - bbox.left,
         opacity |-> parseFloat(IF styles.opacity = "" THEN "1" ELSE styles.opacity),
         scaleX  |-> parseFloat(scaleX),
         scaleY  |-> parseFloat(scaleY)]

\* map.set(id, [el, data]) on an insertion-ordered Map, kept as a sequence of
\* entries: an existing key keeps its place and gets the new value.
MapHas(map, id) == \E i \in 1..Len(map) : map[i].id = id
MapSet_FirstWins(map, id, el, data) ==
    IF MapHas(map, id) THEN map
    ELSE Append(map, [id |-> id, el |-> el, data |-> data])
MapSet(map, id, el, data) ==
    IF MapHas(map, id)
    THEN [i \in 1..Len(map) |->
            IF map[i].id = id THEN [id |-> id, el |-> el, data |-> data] ELSE map[i]]
    ELSE Append(map, [id |-> id, el |-> el, data |-> data])

\* The loop of _collectChildData over the assigned nodes, for the identity
\* attribute name an.
RECURSIVE CollectFrom(_, _, _)
CollectFrom(nodes, an, map) ==
    IF nodes = << >> THEN map
    ELSE LET el == Head(nodes)
             id == IF IsHTMLElement(el) THEN attr[el][an] ELSE NoId
         IN  IF ~IsHTMLElement(el) \/ id = NoId
             THEN CollectFrom(Tail(nodes), an, map)
             ELSE CollectFrom(Tail(nodes), an, MapSet(map, id, el, ChildDataOf(el)))

collectChildData_KeepsUnmarked ==
    LET base == CollectFrom(slotted, attrName, << >>)
        unmarked == {el \in El : /\ \E i \in 1..Len(slotted) : slotted[i] = el
                                 /\ attr[el][attrName] = NoId}
    IN  IF unmarked = {} THEN base
        ELSE LET el == CHOOSE e \in unmarked : TRUE
             IN  MapSet(base, NoId, el, ChildDataOf(el))
collectChildData == CollectFrom(slotted, attrName, << >>)

\* _collectChildData throws: the loop reaches an element with an identity
\* whose getBoundingClientRect throws (there is no try in the loop).
CollectThrows ==
    \E i \in 1..Len(slotted) :
        /\ IsHTMLElement(slotted[i])
        /\ attr[slotted[i]][attrName] # NoId
        /\ ReadThrows(slotted[i])

\* An ordered map as the value kept in _childData (its order is never read).
AsMap_Merged(map) ==
    LET ids == {map[i].id : i \in 1..Len(map)}
    IN  [id \in DOMAIN childData \cup ids |->
            IF id \in ids
            THEN LET i == CHOOSE j \in 1..Len(map) : map[j].id = id
                 IN  [el |-> map[i].el, data |-> map[i].data]
            ELSE childData[id]]
AsMap(map) ==
    [id \in {map[i].id : i \in 1..Len(map)} |->
        LET i == CHOOSE j \in 1..Len(map) : map[j].id = id
        IN  [el |-> map[i].el, data |-> map[i].data]]

\* ------------------------------------------------ _animateChangedElements

\* The test "Animate only if there have been changes": TRUE when the child is
\* skipped.
Unchanged_RatioToZero(old, n) ==
    /\ isCloseTo(Num(old.top - n.top), 0)
    /\ isCloseTo(Num(old.left - n.left), 0)
    /\ isCloseTo(Quot(old.scaleX, n.scaleX), 0)
    /\ isCloseTo(Quot(old.scaleY, n.scaleY), 0)
Unchanged_WithOpacity(old, n) ==
    /\ isCloseTo(Num(old.top - n.top), 0)
    /\ isCloseTo(Num(old.left - n.left), 0)
    /\ isCloseTo(Quot(old.scaleX, n.scaleX), 1)
    /\ isCloseTo(Quot(old.scaleY, n.scaleY), 1)
    /\ old.opacity = n.opacity
Unchanged(old, n) ==
    LET dT == old.top - n.top
        dL == old.left - n.left
    IN  /\ isCloseTo(Num(dT), 0)
        /\ isCloseTo(Num(dL), 0)
        /\ isCloseTo(Quot(old.scaleX, n.scaleX), 1)
        /\ isCloseTo(Quot(old.scaleY, n.scaleY), 1)

\* The loop of _animateChangedElements over the new map: the entries it does
\* not skip, in the map's order, each with the old ChildData of its identity.
RECURSIVE AnimatedEntries(_)
AnimatedEntries_NewFromOrigin(new) ==
    IF new = << >> THEN << >>
    ELSE LET ent == Head(new)
             old == IF ent.id \in DOMAIN childData
                    THEN childData[ent.id].data
                    ELSE [ent.data EXCEPT !.top = 0, !.left = 0]
         IN  IF Unchanged(old, ent.data)
             THEN AnimatedEntries(Tail(new))
             ELSE << [el |-> ent.el, old |-> old, n |-> ent.data] >>
                      \o AnimatedEntries(Tail(new))
AnimatedEntries_KeyedByElement(new) ==
    IF new = << >> THEN << >>
    ELSE LET ent  == Head(new)
             from == {id \in DOMAIN childData : childData[id].el = ent.el}
         IN  IF from = {}
             THEN AnimatedEntries(Tail(new))
             ELSE LET old == childData[CHOOSE id \in from : TRUE].data
                  IN  IF Unchanged(old, ent.data)
                      THEN AnimatedEntries(Tail(new))
                      ELSE << [el |-> ent.el, old |-> old, n |-> ent.data] >>
                               \o AnimatedEntries(Tail(new))
AnimatedEntries(new) ==
    IF new = << >> THEN << >>
    ELSE LET ent == Head(new)
         IN  IF ent.id \notin DOMAIN childData
             THEN AnimatedEntries(Tail(new))
             ELSE LET old == childData[ent.id].data
                  IN  IF Unchanged(old, ent.data)
                      THEN AnimatedEntries(Tail(new))
                      ELSE << [el |-> ent.el, old |-> old, n |-> ent.data] >>
                               \o AnimatedEntries(Tail(new))

\* Revert new layout into old positions: the writes to one element.
RevertStyle_NoDelta(st, old, n) ==
    [transform |-> generateTransformString(0, 0, old.scaleX, old.scaleY),
     opacity   |-> << NumToString(old.opacity) >>,
     classes   |-> st.classes \ {transitionClassName}]
RevertStyle(st, old, n) ==
    LET dT == old.top - n.top
        dL == old.left - n.left
    IN  [transform |-> generateTransformString(dL, dT, old.scaleX, old.scaleY),
         opacity   |-> << NumToString(old.opacity) >>,
         classes   |-> st.classes \ {transitionClassName}]

\* Remove our reverts and let animation play: the writes of the frame callback.
PlayStyle(st, n) ==
    [transform |-> generateTransformString(0, 0, n.scaleX, n.scaleY),
     opacity   |-> << NumToString(n.opacity) >>,
     classes   |-> st.classes \cup {transitionClassName}]

\* ------------------------------------------------------------ scheduling

\* The part of the state a handler of the element reads and writes while it
\* schedules work: _animationEnqueued, the two callback queues, the observer's
\* registrations and queued records, and the event listeners.
Sched ==
    [enq |-> animationEnqueued, mq |-> microQ, fq |-> frameQ,
     obs |-> observed, obsAttr |-> observedAttr, rec |-> moRecords,
     lis |-> listening, win |-> window]

\* Promise.resolve().then(cb) and requestAnimationFrame(cb).
queueMicrotask(s, cb) == [s EXCEPT !.mq = Append(s.mq, cb)]
requestAnimationFrame(s, cb) == [s EXCEPT !.fq = Append(s.fq, cb)]

\* batchCallback(cb)
batchCallback(s, cb) ==
    IF UsesMicrotask THEN queueMicrotask(s, cb) ELSE requestAnimationFrame(s, cb)

\* _enqueueAnimateChangedElements()
\* (history: a call while a cycle is pending is one more signal of its window;
\* a call that schedules opens a new window)
enqueueAnimateChangedElements_NoGuard(s) ==
    batchCallback([s EXCEPT !.enq = TRUE,
                            !.win = IF s.enq
                                    THEN [s.win EXCEPT !.signals = s.win.signals + 1]
                                    ELSE [signals |-> 1, passes |-> 0]],
                  PassCb)
enqueueAnimateChangedElements(s) ==
    IF s.enq
    THEN [s EXCEPT !.win.signals = s.win.signals + 1]
    ELSE batchCallback([s EXCEPT !.enq = TRUE,
                                 !.win = [signals |-> 1, passes |-> 0]],
                       PassCb)

\* Queue the microtask that notifies mutation observers and fires slotchange,
\* unless it is queued already.
QueueNotify(mq) ==
    IF \E i \in 1..Len(mq) : mq[i].kind = "notify" THEN mq ELSE Append(mq, NotifyCb)

\* observe(child, { attributes: true, attributeFilter: [this.attrName] }): the
\* observer gets a record for a change of attribute an only when the filter
\* names it.
FilterMatches_AllAttributes(filter, an) == TRUE
FilterMatches(filter, an) == filter = an

\* The element itself writes attribute an ("class" through classList, "style"
\* through el.style) of a child: a mutation like any other, recorded when the
\* child is observed and the filter names the attribute.
OwnWrite(s, el, an) ==
    IF el \in s.obs /\ FilterMatches(s.obsAttr, an)
    THEN [s EXCEPT !.rec = TRUE, !.mq = QueueNotify(s.mq)]
    ELSE s

\* The attribute writes of the revert of entries, and of a revert that stops
\* at a throwing style write after its classList.remove.
RECURSIVE RevertWrites(_, _)
RevertWrites(s, entries) ==
    IF entries = << >> THEN s
    ELSE RevertWrites(OwnWrite(OwnWrite(s, Head(entries).el, "class"),
                               Head(entries).el, "style"),
                      Tail(entries))

\* _childObserver.disconnect(): nothing is observed any more and the records
\* not yet delivered are dropped.
disconnect_KeepsObserving(s) == s
disconnect(s) == [s EXCEPT !.obs = {}, !.rec = FALSE]

\* _updateMutationObserver(), with the values of _active and _attrName it reads;
\* observe(child, ...) adds the child to the nodes the observer watches.
updateMutationObserver_NoEnqueue(s, act, an) ==
    LET disconnected == disconnect(s)
    IN  IF ~act
        THEN disconnected
        ELSE [disconnected EXCEPT
                !.obs = @ \cup {slotted[i] : i \in {j \in 1..Len(slotted) :
                                                       IsHTMLElement(slotted[j])}},
                !.obsAttr = an]
updateMutationObserver(s, act, an) ==
    LET disconnected == disconnect(s)
    IN  IF ~act
        THEN disconnected
        ELSE enqueueAnimateChangedElements(
                 [disconnected EXCEPT
                    !.obs = @ \cup {slotted[i] : i \in {j \in 1..Len(slotted) :
                                                           IsHTMLElement(slotted[j])}},
                    !.obsAttr = an])

\* _updateListeners()
updateListeners(s, act, an) ==
    updateMutationObserver([s EXCEPT !.lis = act], act, an)

\* The scheduling state after a handler, written back.
SetSched(s) ==
    /\ animationEnqueued' = s.enq
    /\ microQ' = s.mq
    /\ frameQ' = s.fq
    /\ observed' = s.obs
    /\ observedAttr' = s.obsAttr
    /\ moRecords' = s.rec
    /\ listening' = s.lis
    /\ window' = s.win

\* The requestAnimationFrame calls of one pass: a play callback per animated
\* entry, in the order of the loop.
RECURSIVE SchedulePlays(_, _)
SchedulePlays_Microtask(s, entries) ==
    IF entries = << >> THEN s
    ELSE SchedulePlays(batchCallback(s, PlayCb(Head(entries).el, Head(entries).n)),
                       Tail(entries))
SchedulePlays(s, entries) ==
    IF entries = << >> THEN s
    ELSE SchedulePlays(
             requestAnimationFrame(s, PlayCb(Head(entries).el, Head(entries).n)),
             Tail(entries))

\* (history) The first frame callback requested since scheduling state s0 is
\* marked as the first play callback of its pass.
MarkFirst(s0, s1) ==
    [s1 EXCEPT !.fq = [i \in 1..Len(s1.fq) |->
                          IF i = Len(s0.fq) + 1 /\ s1.fq[i].kind = "play"
                          THEN [s1.fq[i] EXCEPT !.first = TRUE]
                          ELSE s1.fq[i]]]

\* The element styles after the revert writes of a pass that animates entries.
RevertAll(entries) ==
    [el \in El |->
        IF \E i \in 1..Len(entries) : entries[i].el = el
        THEN LET ent == entries[CHOOSE i \in 1..Len(entries) : entries[i].el = el]
             IN  RevertStyle(style[el], ent.old, ent.n)
        ELSE style[el]]

\* The entries of the loop that are reverted before a style write throws
\* (all of them when none throws); the loop has no try.
BeforeThrow(entries) ==
    LET bad == {i \in 1..Len(entries) : WriteThrows(entries[i].el)}
    IN  IF bad = {} THEN entries
        ELSE SubSeq(entries, 1, (CHOOSE i \in bad : \A j \in bad : i <= j) - 1)

\* The element whose style write throws has had its marker class removed.
ThrowingRevert(styles, entries) ==
    IF Len(BeforeThrow(entries)) = Len(entries) THEN styles
    ELSE LET el == entries[Len(BeforeThrow(entries)) + 1].el
         IN  [styles EXCEPT ![el].classes = @ \ {transitionClassName}]

\* _animateChangedElements() runs to its end: nothing throws.
PassCompletes ==
    /\ ~CollectThrows
    /\ \A i \in 1..Len(AnimatedEntries(collectChildData)) :
           ~WriteThrows(AnimatedEntries(collectChildData)[i].el)

\* _animateChangedElements(), run from scheduling state s.  An exception
\* leaves the method at once: _childData is assigned only when the loop ends.
\* (newChildData, the animated entries and those reverted before a throw are
\* each bound to their one value.)
animateChangedElements_StoreIfAnimated(s) ==
    IF CollectThrows
    THEN /\ style' = style
         /\ SetSched(s)
         /\ childData' = childData
    ELSE \E newChildData \in {collectChildData} :
         \E animated \in {AnimatedEntries(newChildData)} :
         \E done \in {BeforeThrow(animated)} :
             /\ style' = ThrowingRevert(RevertAll(done), animated)
             /\ SetSched(MarkFirst(s, SchedulePlays(
                    IF Len(done) = Len(animated)
                    THEN RevertWrites(s, done)
                    ELSE OwnWrite(RevertWrites(s, done),
                                  animated[Len(done) + 1].el, "class"),
                    done)))
             /\ childData' = IF Len(done) = Len(animated) /\ animated # << >>
                              THEN AsMap(newChildData)
                              ELSE childData
animateChangedElements_StoresAsItGoes(s) ==
    IF CollectThrows
    THEN /\ style' = style
         /\ SetSched(s)
         /\ childData' = childData
    ELSE \E newChildData \in {collectChildData} :
         \E animated \in {AnimatedEntries(newChildData)} :
         \E done \in {BeforeThrow(animated)} :
             /\ style' = ThrowingRevert(RevertAll(done), animated)
             /\ SetSched(MarkFirst(s, SchedulePlays(
                    IF Len(done) = Len(animated)
                    THEN RevertWrites(s, done)
                    ELSE OwnWrite(RevertWrites(s, done),
                                  animated[Len(done) + 1].el, "class"),
                    done)))
             /\ childData' = IF Len(done) = Len(animated)
                              THEN AsMap(newChildData)
                              ELSE AsMap_Merged(newChildData)
animateChangedElements(s) ==
    IF CollectThrows
    THEN /\ style' = style
         /\ SetSched(s)
         /\ childData' = childData
    ELSE \E newChildData \in {collectChildData} :
         \E animated \in {AnimatedEntries(newChildData)} :
         \E done \in {BeforeThrow(animated)} :
             /\ style' = ThrowingRevert(RevertAll(done), animated)
             /\ SetSched(MarkFirst(s, SchedulePlays(
                    IF Len(done) = Len(animated)
                    THEN RevertWrites(s, done)
                    ELSE OwnWrite(RevertWrites(s, done),
                                  animated[Len(done) + 1].el, "class"),
                    done)))
             /\ childData' = IF Len(done) = Len(animated)
                              THEN AsMap(newChildData)
                              ELSE childData

\* ---------------------------------------------------------------- Init

\* (history) Nothing stored yet; after a store, nothing changed since.
\* The identities carried by the slotted HTMLElement children.
LiveIds ==
    {attr[slotted[i]][attrName] :
        i \in {j \in 1..Len(slotted) : IsHTMLElement(slotted[j])}} \ {NoId}

\* The slotted element that a collection keeps for identity id: the last
\* HTMLElement child carrying it.
LastCarrier(id) ==
    LET carriers == {i \in 1..Len(slotted) :
                        IsHTMLElement(slotted[i]) /\ attr[slotted[i]][attrName] = id}
    IN  slotted[CHOOSE i \in carriers : \A j \in carriers : j <= i]

\* What the layout source reports for the live children, by identity.
LiveSnapshot ==
    [id \in LiveIds |->
        LET el == LastCarrier(id)
        IN  [el   |-> el,
             data |-> [top     |-> layout[el].top,
                       left    |-> layout[el].left,
                       opacity |-> parseFloat(layout[el].opacity),
                       scaleX  |-> IF transformRegexMatches(layout[el].transform)
                                   THEN parseFloat(layout[el].transform[1]) ELSE One,
                       scaleY  |-> IF transformRegexMatches(layout[el].transform)
                                   THEN parseFloat(layout[el].transform[4]) ELSE One]]]

\* |a / b - 1| <= 1e-5 in exact arithmetic, for the scales of the test (the
\* product is taken only when the difference is small enough not to overflow).
RatioWithinTol(a, b) ==
    /\ b # 0
    /\ Abs(a - b) <= 4 * Epsilon
    /\ Abs(a - b) * InvEps <= Abs(b)

\* The stored and the measured snapshot of identity id agree in top, left and
\* both scales within the tolerance and differ in opacity.
OnlyOpacityDiffers(id) ==
    LET old == childData[id].data
        n   == LiveSnapshot[id].data
    IN  /\ Abs(old.top - n.top) <= Epsilon
        /\ Abs(old.left - n.left) <= Epsilon
        /\ RatioWithinTol(old.scaleX, n.scaleX)
        /\ RatioWithinTol(old.scaleY, n.scaleY)
        /\ old.opacity # n.opacity

\* (absent: the identities no slotted child carried at the last completed
\* pass; regained: those a refresh() callback has collected since that pass;
\* reentered: those absent at the pass before the last completed one, not
\* regained, and carried again at the last one; aborted: a pass has thrown
\* since the last completed pass or refresh; faded: the identities whose
\* stored and measured snapshots differed in opacity only at the last
\* completed pass; rekeyed: the identities that pass found on another element
\* than the one their stored entry was recorded from, with a changed geometry;
\* noSlotError: since the last collection a setter or the callback of refresh()
\* has thrown a TypeError on this._slot, which is undefined before
\* connectedCallback; absorbed: the callback of refresh() stored last and
\* replaced a map that a layout change had made stale; afterRefresh: the last
\* completed pass compared with such a map, nothing having changed since)
NeverStored == [stored |-> FALSE, layoutChanged |-> FALSE, domChanged |-> FALSE,
                noopPass |-> FALSE, refreshed |-> FALSE,
                absent |-> {}, regained |-> {}, reentered |-> {},
                aborted |-> FALSE, faded |-> {}, rekeyed |-> {},
                noSlotError |-> FALSE, absorbed |-> FALSE,
                afterRefresh |-> FALSE]
JustStored(noop) == [stored |-> TRUE, layoutChanged |-> FALSE, domChanged |-> FALSE,
                     noopPass |-> noop, refreshed |-> FALSE,
                     absent |-> Ids \ LiveIds, regained |-> {},
                     reentered |-> (store.absent \ store.regained) \cap LiveIds,
                     aborted |-> FALSE,
                     faded |-> {id \in DOMAIN childData \cap LiveIds :
                                   OnlyOpacityDiffers(id)},
                     rekeyed |-> {id \in DOMAIN childData \cap LiveIds :
                                     /\ childData[id].el # LastCarrier(id)
                                     /\ ~Unchanged(childData[id].data,
                                                   LiveSnapshot[id].data)},
                     noSlotError |-> FALSE,
                     absorbed |-> FALSE,
                     afterRefresh |-> noop /\ store.refreshed /\ store.absorbed]
\* (history) The callback of refresh() stored last.
JustRefreshed == [JustStored(FALSE) EXCEPT !.refreshed = TRUE,
                                           !.absent = store.absent,
                                           !.reentered = store.reentered,
                                           !.regained = store.regained \cup LiveIds,
                                           !.faded = {},
                                           !.rekeyed = {},
                                           !.absorbed = store.stored /\ store.layoutChanged,
                                           !.afterRefresh = FALSE]
NothingChanged == store.stored /\ ~store.layoutChanged /\ ~store.domChanged

ZeroData == [top |-> 0, left |-> 0, opacity |-> One, scaleX |-> One, scaleY |-> One]

\* The fields of the configurable release after construction.
CfgDefaults ==
    /\ className = transitionClassName
    /\ durationMs = DefaultDurationMs
    /\ timers = << >>
    /\ slotStale = FALSE

\* The element after construction, in a document whose children carry
\* identities; nothing is scheduled and nothing is observed yet.
InitWith(hostSteps, faults) ==
    /\ engine \in {"WebKitEdgeHTML", "other"}
    /\ throwing \in faults
    /\ microQ = << >>
    /\ frameQ = << >>
    /\ runQ = << >>
    /\ inFrame = FALSE
    /\ moRecords = FALSE
    /\ slotSignal = FALSE
    /\ bbox \in BBoxes
    /\ slotted \in { << "e1", "t1", "e2" >>, << "e1" >> }
    /\ attr = [el \in El |-> [an \in AttrNames |->
                 IF an = DefaultAttrName
                 THEN (IF el = "e1" THEN "a" ELSE "b")
                 ELSE (IF el = "e1" THEN "b" ELSE NoId)]]
    /\ layout = [el \in El |-> InitialLayout]
    /\ style = [el \in El |-> NoStyle]
    /\ budget = hostSteps
    /\ connected = FALSE
    /\ active = TRUE
    /\ attrName = DefaultAttrName
    /\ animationEnqueued = FALSE
    /\ childData = << >>
    /\ listening = FALSE
    /\ observed = {}
    /\ observedAttr = DefaultAttrName
    /\ window = [signals |-> 0, passes |-> 0]
    /\ store = NeverStored
    /\ unseen = FALSE
    /\ tOld = ZeroData
    /\ tNew = ZeroData
    /\ tOut = "idle"
    /\ CfgDefaults

\* In a browser the DOM primitives the element uses do not throw.
Init == InitWith(MaxHostSteps, {NoFaults})

\* ------------------------------------------------------- the element's API

\* connectedCallback(): the shadow root and its slot exist from here on.
Connect ==
    /\ ~connected
    /\ connected' = TRUE
    /\ SetSched(updateListeners(Sched, active, attrName))
    /\ UNCHANGED << engine, throwing, runQ, inFrame, slotSignal, domVars, active, attrName,
                    childData, histVars, testVars, cfgVars >>

\* A host operation uses up one unit of the host's budget.
HostStep == budget > 0 /\ budget' = budget - 1

\* set active(val); also attributeChangedCallback('active').  Before
\* connectedCallback, _updateListeners fails on the missing slot after the
\* assignment.
SetActive(val) ==
    /\ HostStep
    /\ active' = val
    /\ IF connected
       THEN SetSched(updateListeners(Sched, val, attrName))
       ELSE UNCHANGED << animationEnqueued, microQ, frameQ, observed, observedAttr,
                         moRecords, listening, window >>
    /\ store' = [store EXCEPT !.noSlotError = @ \/ ~connected]
    /\ UNCHANGED << engine, throwing, runQ, inFrame, slotSignal, bbox, slotted, attr, layout,
                    style, connected, attrName, childData, unseen, testVars, cfgVars >>

\* set attrName(val); also attributeChangedCallback('attr-name').
SetAttrName(val) ==
    /\ HostStep
    /\ attrName' = val
    /\ IF connected
       THEN SetSched(updateListeners(Sched, active, val))
       ELSE UNCHANGED << animationEnqueued, microQ, frameQ, observed, observedAttr,
                         moRecords, listening, window >>
    /\ store' = [store EXCEPT !.domChanged = @ \/ val # attrName,
                               !.noSlotError = @ \/ ~connected]
    /\ UNCHANGED << engine, throwing, runQ, inFrame, slotSignal, bbox, slotted, attr, layout,
                    style, connected, active, childData, unseen, testVars, cfgVars >>

\* refresh()
Refresh_Synchronous ==
    /\ HostStep
    /\ childData' = IF connected THEN AsMap(collectChildData) ELSE childData
    /\ SetSched(Sched)
    /\ UNCHANGED << engine, throwing, runQ, inFrame, slotSignal, bbox, slotted, attr,
                    layout, style, connected, active, attrName, histVars,
                    testVars, cfgVars >>
Refresh ==
    /\ HostStep
    /\ SetSched(batchCallback(Sched, RefreshCb))
    /\ UNCHANGED << engine, throwing, runQ, inFrame, slotSignal, bbox, slotted, attr, layout,
                    style, connected, active, attrName, childData, histVars,
                    testVars, cfgVars >>

\* ------------------------------------------------------- the host's changes

\* The layout source reports a new geometry for a slotted element.
LayoutChange(el, l) ==
    /\ HostStep
    /\ \E i \in 1..Len(slotted) : slotted[i] = el
    /\ l # layout[el]
    /\ layout' = [layout EXCEPT ![el] = l]
    /\ store' = [store EXCEPT !.layoutChanged = TRUE]
    /\ UNCHANGED << browserVars, bbox, slotted, attr, style, flipVars, unseen,
                    testVars, cfgVars >>

\* el.setAttribute(an, id) / el.removeAttribute(an): observed by _childObserver
\* when el is observed with this attribute in its filter.
SetAttribute(el, an, id) ==
    /\ HostStep
    /\ id # attr[el][an]
    /\ attr' = [attr EXCEPT ![el][an] = id]
    /\ IF el \in observed /\ FilterMatches(observedAttr, an)
       THEN moRecords' = TRUE /\ microQ' = QueueNotify(microQ) /\ unseen' = TRUE
       ELSE UNCHANGED << moRecords, microQ, unseen >>
    /\ store' = [store EXCEPT !.domChanged = TRUE]
    /\ UNCHANGED << engine, throwing, frameQ, runQ, inFrame, slotSignal, bbox, slotted, layout,
                    style, flipVars, testVars, cfgVars >>

\* The assigned nodes of the slot become nodes; once the slot exists this
\* signals a slotchange.
SlotChange(nodes) ==
    /\ HostStep
    /\ slotted' = nodes
    /\ IF connected
       THEN slotSignal' = TRUE /\ microQ' = QueueNotify(microQ) /\ unseen' = TRUE
       ELSE UNCHANGED << slotSignal, microQ, unseen >>
    /\ store' = [store EXCEPT !.domChanged = TRUE]
    /\ UNCHANGED << engine, throwing, frameQ, runQ, inFrame, moRecords, bbox, attr, layout,
                    style, flipVars, testVars, cfgVars >>

Without(seq, node) == SelectSeq(seq, LAMBDA x : x # node)
InSlot(node) == \E i \in 1..Len(slotted) : slotted[i] = node

\* appendChild(node): a new child, or an existing child moved to the end.
AppendChild(node) ==
    /\ Append(Without(slotted, node), node) # slotted
    /\ SlotChange(Append(Without(slotted, node), node))

\* removeChild(node)
RemoveChild(node) ==
    /\ InSlot(node)
    /\ SlotChange(Without(slotted, node))

\* A 'dom-change' event reaches the element (as Polymer's dom-repeat fires
\* it): the listener, when registered, runs _updateMutationObserver.
DomChange ==
    /\ HostStep
    /\ listening
    /\ SetSched(updateMutationObserver(Sched, active, attrName))
    /\ UNCHANGED << engine, throwing, runQ, inFrame, slotSignal, bbox, slotted, attr, layout,
                    style, connected, active, attrName, childData, histVars,
                    testVars, cfgVars >>

\* ------------------------------------------------------------ callbacks

\* The callback of _enqueueAnimateChangedElements: clear the flag, then run
\* the pass.
PassCallback_ClearsAfter(s) ==
    /\ animateChangedElements([s EXCEPT !.enq = ~PassCompletes,
                                         !.win.passes = s.win.passes + 1])
    /\ store' = IF PassCompletes THEN JustStored(NothingChanged)
                 ELSE [store EXCEPT !.aborted = TRUE]
    /\ unseen' = IF CollectThrows THEN unseen ELSE FALSE
    /\ UNCHANGED << slotSignal >>
PassCallback(s) ==
    /\ animateChangedElements([s EXCEPT !.enq = FALSE,
                                         !.win.passes = s.win.passes + 1])
    /\ store' = IF PassCompletes THEN JustStored(NothingChanged)
                 ELSE [store EXCEPT !.aborted = TRUE]
    /\ unseen' = IF CollectThrows THEN unseen ELSE FALSE
    /\ UNCHANGED << slotSignal >>

\* The callback of refresh(): () => this._childData = this._collectChildData().
\* Before connectedCallback there is no slot and the callback fails.
RefreshCallback_Animates(s) ==
    /\ animateChangedElements(s)
    /\ store' = JustRefreshed
    /\ UNCHANGED << slotSignal, unseen >>
RefreshCallback(s) ==
    /\ childData' = IF connected /\ ~CollectThrows
                     THEN AsMap(collectChildData) ELSE childData
    /\ store' = IF connected /\ ~CollectThrows THEN JustRefreshed
                 ELSE [store EXCEPT !.noSlotError = @ \/ ~connected]
    /\ SetSched(s)
    /\ UNCHANGED << style, slotSignal, unseen >>

\* The frame callback of one animated element.
PlayCallback(s, cb) ==
    /\ style' = IF WriteThrows(cb.el) THEN style
                 ELSE [style EXCEPT ![cb.el] = PlayStyle(style[cb.el], cb.n[1])]
    /\ SetSched(IF WriteThrows(cb.el) THEN s
                ELSE OwnWrite(OwnWrite(s, cb.el, "style"), cb.el, "class"))
    /\ UNCHANGED << childData, slotSignal, histVars >>

\* The microtask that notifies mutation observers: _childObserver's callback
\* when records are queued for it, then the slotchange event, whose listener
\* (when registered) is _updateMutationObserver.
NotifyCallback(s) ==
    LET taken     == [s EXCEPT !.rec = FALSE]
        afterMO   == IF s.rec THEN enqueueAnimateChangedElements(taken) ELSE taken
        afterSlot == IF slotSignal /\ afterMO.lis
                     THEN updateMutationObserver(afterMO, active, attrName)
                     ELSE afterMO
    IN  /\ SetSched(afterSlot)
        /\ slotSignal' = FALSE
        /\ UNCHANGED << style, childData, histVars >>

RunCallback(s, cb) ==
    CASE cb.kind = "pass"    -> PassCallback(s)
      [] cb.kind = "refresh" -> RefreshCallback(s)
      [] cb.kind = "play"    -> PlayCallback(s, cb)
      [] cb.kind = "notify"  -> NotifyCallback(s)

\* ------------------------------------------------------- the event loop

\* Rendering: every waiting play callback has now had a frame painted since
\* its revert was written.
Paint(q) ==
    [i \in 1..Len(q) |-> IF q[i].kind = "play" THEN [q[i] EXCEPT !.painted = TRUE]
                         ELSE q[i]]

\* The head of the microtask queue runs.
RunMicrotask ==
    /\ microQ # << >>
    /\ RunCallback([Sched EXCEPT !.mq = Tail(microQ)], Head(microQ))
    /\ UNCHANGED << engine, throwing, runQ, inFrame, bbox, slotted, attr, layout, budget,
                    connected, active, attrName, testVars, cfgVars >>

\* A frame begins once the microtask queue is empty: the callbacks requested
\* so far are the ones this frame runs.
FrameStart ==
    /\ ~inFrame
    /\ microQ = << >>
    /\ frameQ # << >>
    /\ inFrame' = TRUE
    /\ runQ' = IF RafAfterRender THEN Paint(frameQ) ELSE frameQ
    /\ frameQ' = << >>
    /\ UNCHANGED << engine, throwing, microQ, moRecords, slotSignal, domVars, flipVars,
                    histVars, testVars, cfgVars >>

\* The next animation frame callback of the running frame.
FrameCallback ==
    /\ inFrame
    /\ microQ = << >>
    /\ runQ # << >>
    /\ runQ' = Tail(runQ)
    /\ RunCallback(Sched, Head(runQ))
    /\ UNCHANGED << engine, throwing, inFrame, bbox, slotted, attr, layout, budget,
                    connected, active, attrName, testVars, cfgVars >>

\* The frame ends; browsers other than WebKit and EdgeHTML render now.
FrameEnd ==
    /\ inFrame
    /\ microQ = << >>
    /\ runQ = << >>
    /\ inFrame' = FALSE
    /\ frameQ' = IF RafAfterRender THEN frameQ ELSE Paint(frameQ)
    /\ UNCHANGED << engine, throwing, microQ, runQ, moRecords, slotSignal, domVars, flipVars,
                    histVars, testVars, cfgVars >>

\* ------------------------------------------------------- specification

Host ==
    \/ \E val \in BOOLEAN : SetActive(val)
    \/ \E val \in AttrNames : SetAttrName(val)
    \/ Refresh
    \/ \E el \in El, l \in Layouts : LayoutChange(el, l)
    \/ \E el \in El, an \in AttrNames, id \in Ids \cup {NoId} : SetAttribute(el, an, id)
    \/ \E node \in Nodes : AppendChild(node)
    \/ \E node \in Nodes : RemoveChild(node)
    \/ DomChange

Next ==
    \/ Connect
    \/ Host
    \/ RunMicrotask
    \/ FrameStart
    \/ FrameCallback
    \/ FrameEnd

Spec == Init /\ [][Next]_vars

\* The same element with a host that makes up to BatchHostSteps operations:
\* enough to move two children, signal, and act again while their play
\* callbacks run.
BatchSpec == InitWith(BatchHostSteps, {NoFaults}) /\ [][Next]_vars

\* The same element in a document where DOM primitives of some children
\* throw.
FaultSpec ==
    /\ InitWith(FaultHostSteps, [El -> Faults])
    /\ [][Next]_vars

\* The same element and host, the host making at most LiveHostSteps
\* operations, on an event loop that keeps delivering microtasks and
\* animation frames.
FairSpec ==
    /\ InitWith(LiveHostSteps, {NoFaults})
    /\ [][Next]_vars
    /\ WF_vars(RunMicrotask)
    /\ WF_vars(FrameStart)
    /\ WF_vars(FrameCallback)
    /\ WF_vars(FrameEnd)

\* ------------------------------------------ the change test on its own

\* Offsets around the tolerance, and scales around 1 and 2 with their
\* tolerance (epsilon times the new scale), zero and a mirrored scale.
TestOffsets == {0, Epsilon - 1, Epsilon, Epsilon + 1, Px(100)}
TestOldScales == {0, One - Epsilon - 1, One - Epsilon, One, One + Epsilon - 1,
                  One + Epsilon, One + Epsilon + 1, 2 * One,
                  2 * One + 2 * Epsilon, 2 * One + 2 * Epsilon + 1, 0 - One}
TestNewScales == {0, One, 2 * One, 0 - One}

TestInit ==
    /\ engine = "other"
    /\ throwing = NoFaults
    /\ microQ = << >> /\ frameQ = << >> /\ runQ = << >>
    /\ inFrame = FALSE /\ moRecords = FALSE /\ slotSignal = FALSE
    /\ bbox \in BBoxes
    /\ slotted = << >>
    /\ attr = [el \in El |-> [an \in AttrNames |-> NoId]]
    /\ layout = [el \in El |-> InitialLayout]
    /\ style = [el \in El |-> NoStyle]
    /\ budget = 0
    /\ connected = FALSE /\ active = TRUE /\ attrName = DefaultAttrName
    /\ animationEnqueued = FALSE /\ childData = << >>
    /\ listening = FALSE /\ observed = {} /\ observedAttr = DefaultAttrName
    /\ window = [signals |-> 0, passes |-> 0]
    /\ store = NeverStored
    /\ unseen = FALSE
    /\ tOld \in [top : {0, Epsilon}, left : TestOffsets, opacity : {One},
                 scaleX : TestOldScales, scaleY : {One, One + Epsilon + 1}]
    /\ tNew \in [top : {0}, left : {0, Px(100)}, opacity : {One, One \div 2},
                 scaleX : TestNewScales, scaleY : {One}]
    /\ tOut = "idle"
    /\ CfgDefaults

\* The change test of _animateChangedElements applied to one old and one new
\* ChildData.
ApplyChangeTest ==
    /\ tOut = "idle"
    /\ tOut' = IF Unchanged(tOld, tNew) THEN "skip" ELSE "animate"
    /\ UNCHANGED << browserVars, domVars, flipVars, histVars, tOld, tNew, cfgVars >>

TestNext == ApplyChangeTest

ChangeTestSpec == TestInit /\ [][TestNext]_vars

\* ------------------------------------ the configurable release of the element

\* The host operations of a run of the configurable release.
CfgHostSteps == 3

\* The frame callback of one animated element; as history it carries the
\* class name and the duration in force when its pass ran.
PlayCbCfg(el, n) ==
    [kind |-> "play", el |-> el, n |-> << n >>, painted |-> FALSE,
     cls |-> className, dur |-> durationMs]

\* _enqueueAnimateChangedElements(): always Promise.resolve().then(...).
enqueueAnimateChangedElementsCfg(s) ==
    IF s.enq
    THEN [s EXCEPT !.win.signals = s.win.signals + 1]
    ELSE queueMicrotask([s EXCEPT !.enq = TRUE,
                                  !.win = [signals |-> 1, passes |-> 0]],
                        PassCb)

\* this._slot.assignedNodes(): a slot that _render() has replaced is out of
\* the shadow tree and has no assigned nodes.
assignedNodesCfg == IF slotStale THEN << >> ELSE slotted

\* _updateMutationObserver() and _updateListeners()
updateMutationObserverCfg(s, act, an) ==
    LET disconnected == disconnect(s)
    IN  IF ~act
        THEN disconnected
        ELSE enqueueAnimateChangedElementsCfg(
                 [disconnected EXCEPT
                    !.obs = @ \cup {assignedNodesCfg[i] :
                                i \in {j \in 1..Len(assignedNodesCfg) :
                                          IsHTMLElement(assignedNodesCfg[j])}},
                    !.obsAttr = an])
updateListenersCfg(s, act, an) ==
    updateMutationObserverCfg([s EXCEPT !.lis = act], act, an)

\* The revert writes to one element: classList.remove(this.transitionClassName).
RevertStyleCfg(st, old, n) ==
    [RevertStyle(st, old, n) EXCEPT !.classes = st.classes \ {className}]

RevertAllCfg(entries) ==
    [el \in El |->
        IF \E i \in 1..Len(entries) : entries[i].el = el
        THEN LET ent == entries[CHOOSE i \in 1..Len(entries) : entries[i].el = el]
             IN  RevertStyleCfg(style[el], ent.old, ent.n)
        ELSE style[el]]

RECURSIVE SchedulePlaysCfg(_, _)
SchedulePlaysCfg(s, entries) ==
    IF entries = << >> THEN s
    ELSE SchedulePlaysCfg(
             requestAnimationFrame(s, PlayCbCfg(Head(entries).el, Head(entries).n)),
             Tail(entries))

\* _animateChangedElements()
animateChangedElementsCfg(s) ==
    LET newChildData == CollectFrom(assignedNodesCfg, attrName, << >>)
        animated == AnimatedEntries(newChildData)
    IN  /\ style' = RevertAllCfg(animated)
        /\ SetSched(SchedulePlaysCfg(s, animated))
        /\ childData' = AsMap(newChildData)

\* connectedCallback(): _render(), then the slot is looked up again.
ConnectCfg ==
    /\ ~connected
    /\ connected' = TRUE
    /\ slotStale' = FALSE
    /\ SetSched(updateListenersCfg(Sched, active, attrName))
    /\ UNCHANGED << engine, throwing, runQ, inFrame, slotSignal, domVars, active,
                    attrName, childData, histVars, testVars, className,
                    durationMs, timers >>

\* _render(): the shadow root's content is replaced, the slot included; _slot
\* still refers to the slot of connectedCallback.
render == slotStale' = connected

\* attributeChangedCallback('transition-class-name', _, val)
SetTransitionClassName(val) ==
    /\ HostStep
    /\ className' = val
    /\ render
    /\ UNCHANGED << browserVars, bbox, slotted, attr, layout, style, flipVars,
                    histVars, testVars, durationMs, timers >>

\* attributeChangedCallback('duration-ms', _, val)
SetDurationMs(val) ==
    /\ HostStep
    /\ durationMs' = val
    /\ render
    /\ UNCHANGED << browserVars, bbox, slotted, attr, layout, style, flipVars,
                    histVars, testVars, className, timers >>

\* A 'dom-change' event reaches the element.
DomChangeCfg ==
    /\ HostStep
    /\ listening
    /\ SetSched(updateMutationObserverCfg(Sched, active, attrName))
    /\ UNCHANGED << engine, throwing, runQ, inFrame, slotSignal, bbox, slotted, attr,
                    layout, style, connected, active, attrName, childData,
                    histVars, testVars, cfgVars >>

\* The microtask of _enqueueAnimateChangedElements: clear the flag, run the pass.
RunMicrotaskCfg ==
    /\ microQ # << >>
    /\ Head(microQ).kind = "pass"
    /\ animateChangedElementsCfg([Sched EXCEPT !.mq = Tail(microQ), !.enq = FALSE,
                                               !.win.passes = window.passes + 1])
    /\ store' = [JustStored(NothingChanged) EXCEPT
                   !.absent = IF slotStale THEN Ids ELSE @]
    /\ unseen' = FALSE
    /\ UNCHANGED << engine, throwing, runQ, inFrame, slotSignal, bbox, slotted, attr,
                    layout, budget, connected, active, attrName, testVars,
                    cfgVars >>

\* The frame callback of one animated element: it reads the class name and
\* the duration from the element when it runs, and sets the cleanup timer.
FrameCallbackCfg ==
    /\ inFrame
    /\ microQ = << >>
    /\ runQ # << >>
    /\ Head(runQ).kind = "play"
    /\ runQ' = Tail(runQ)
    /\ LET cb == Head(runQ)
       IN  /\ style' = [style EXCEPT ![cb.el] =
                           [PlayStyle(style[cb.el], cb.n[1]) EXCEPT
                               !.classes = style[cb.el].classes \cup {className}]]
           /\ timers' = Append(timers, [el |-> cb.el, delay |-> durationMs,
                                        cls |-> cb.cls, dur |-> cb.dur])
    /\ UNCHANGED << engine, throwing, microQ, frameQ, inFrame, moRecords, slotSignal,
                    bbox, slotted, attr, layout, budget, flipVars, histVars,
                    testVars, className, durationMs, slotStale >>

\* A cleanup timer fires: it reads the class name from the element now.
RemoveAt(seq, i) == SubSeq(seq, 1, i - 1) \o SubSeq(seq, i + 1, Len(seq))
TimerFires(i) ==
    /\ microQ = << >>
    /\ ~inFrame
    /\ style' = [style EXCEPT ![timers[i].el].classes = @ \ {className}]
    /\ timers' = RemoveAt(timers, i)
    /\ UNCHANGED << browserVars, bbox, slotted, attr, layout, budget, flipVars,
                    histVars, testVars, className, durationMs, slotStale >>

HostCfg ==
    \/ \E val \in ClassNames : SetTransitionClassName(val)
    \/ \E val \in Durations : SetDurationMs(val)
    \/ \E el \in El, l \in Layouts : LayoutChange(el, l)
    \/ DomChangeCfg

NextCfg ==
    \/ ConnectCfg
    \/ HostCfg
    \/ RunMicrotaskCfg
    \/ FrameStart
    \/ FrameCallbackCfg
    \/ FrameEnd
    \/ \E i \in 1..Len(timers) : TimerFires(i)

CfgSpec == InitWith(CfgHostSteps, {NoFaults}) /\ [][NextCfg]_vars

\* The configurable release with room for two animations of one child.
TimerSpec == InitWith(TimerHostSteps, {NoFaults}) /\ [][NextCfg]_vars

\* ------------------------------------------------------------------ C9

\* C9: a child present in both maps is skipped if and only if the top and left
\* deltas are within the tolerance of 0 and both scale ratios are within the
\* tolerance of 1; a delta of exactly the tolerance is skipped, a larger one
\* animated.
C9_ChangeTest ==
    tOut # "idle" =>
        ( tOut = "skip" <=>
            /\ Abs(tOld.top - tNew.top) <= Epsilon
            /\ Abs(tOld.left - tNew.left) <= Epsilon
            /\ RatioWithinTol(tOld.scaleX, tNew.scaleX)
            /\ RatioWithinTol(tOld.scaleY, tNew.scaleY) )

\* A child whose left delta is exactly the tolerance was skipped.
C9_Witness ==
    /\ tOut = "skip"
    /\ tOld.left - tNew.left = Epsilon
    /\ tOld.top - tNew.top = Epsilon
    /\ tOld.scaleX = 2 * One + 2 * Epsilon
    /\ tNew.scaleX = 2 * One

\* ------------------------------------------------------------------ C1

\* The scheduled callbacks of one kind that have not fired yet.
CountKind(q, kind) == Cardinality({i \in 1..Len(q) : q[i].kind = kind})
Pending(kind) == CountKind(microQ, kind) + CountKind(frameQ, kind) + CountKind(runQ, kind)

\* C1: however many signals arrive between the scheduling of a cycle and the
\* firing of its callback, one callback is scheduled for that window and, once
\* it has fired, exactly one collection+diff pass has run for it.
C1_Coalescing ==
    /\ animationEnqueued => (window.passes = 0 /\ Pending("pass") = 1)
    /\ (~animationEnqueued /\ window.signals >= 1) =>
            (window.passes = 1 /\ Pending("pass") = 0)

\* Three signals were merged into one window, and its single pass has run.
C1_Witness ==
    /\ ~animationEnqueued
    /\ window.signals >= 3
    /\ window.passes = 1

\* --------------------------------------------------- steps of the element

\* The deferred callback of a cycle fires: it alone clears _animationEnqueued.
PassStep == animationEnqueued /\ ~animationEnqueued'
\* The frame callbacks requested during a step.
NewFrameCallbacks == {frameQ'[i] : i \in (Len(frameQ) + 1)..Len(frameQ')}
\* The play callback of an animated element runs.
PlayStep == inFrame /\ runQ # << >> /\ Head(runQ).kind = "play" /\ runQ' = Tail(runQ)
\* A pass that writes no style and requests no frame callback.
AnimatesNothing == style' = style /\ NewFrameCallbacks = {}

\* ------------------------------------------------------------------ C2

\* C2: every child a pass animates (it gets a play callback) carries, right
\* after the pass, translate(previous.left - current.left, previous.top -
\* current.top) scale(previous.scaleX, previous.scaleY) and previous.opacity;
\* the play callback of that pass leaves translate(0, 0) scale(current.scaleX,
\* current.scaleY) and current.opacity.
C2_RevertThenPlay ==
    [][ /\ PassStep =>
            /\ \A cb \in NewFrameCallbacks :
                 \E id \in DOMAIN childData \cap DOMAIN childData' :
                    LET previous == childData[id].data
                        current  == childData'[id].data
                    IN  /\ cb.kind = "play"
                        /\ cb.el = childData'[id].el
                        /\ cb.n = << current >>
                        /\ style'[cb.el].transform =
                              generateTransformString(previous.left - current.left,
                                                      previous.top - current.top,
                                                      previous.scaleX, previous.scaleY)
                        /\ style'[cb.el].opacity = << NumToString(previous.opacity) >>
            /\ \A el \in El : style'[el] # style[el] =>
                                 \E cb \in NewFrameCallbacks : cb.el = el
        /\ PlayStep =>
            LET cb      == Head(runQ)
                current == cb.n[1]
            IN  /\ style'[cb.el].transform =
                      generateTransformString(0, 0, current.scaleX, current.scaleY)
                /\ style'[cb.el].opacity = << NumToString(current.opacity) >>
      ]_vars

\* A child whose scale went from (1, 1) to (2, 1) and whose opacity went from
\* 1 to 1 has been reverted and played: it shows the new scale.
C2_Witness ==
    \E el \in El :
        /\ transitionClassName \in style[el].classes
        /\ style[el].transform = generateTransformString(0, 0, 2 * One, One)
        /\ style[el].opacity = << NumToString(One) >>

\* ------------------------------------------------------------------ C3

\* The decimal numerals of whole numbers, as template literals print them.
Numeral(k) == [neg |-> FALSE, int |-> k, frac |-> 0]
Negative(k) == [neg |-> TRUE, int |-> k, frac |-> 0]
TransformText(dx, dy, sx, sy) ==
    << "translate(", dx, "px, ", dy, "px) scale(", sx, ", ", sy, ")" >>

\* Scenario A: stored at top 0, left 0, collected at top 0, left 100.
ScenarioA_Stored == [top |-> 0, left |-> 0, opacity |-> One,
                     scaleX |-> One, scaleY |-> One]
ScenarioA_Collected == [top |-> 0, left |-> Px(100), opacity |-> One,
                        scaleX |-> One, scaleY |-> One]
\* The pass of scenario A for identity id, and its play callback.
ScenarioA_Pass(id) ==
    /\ PassStep
    /\ id \in DOMAIN childData /\ childData[id].data = ScenarioA_Stored
    /\ id \in DOMAIN childData' /\ childData'[id].data = ScenarioA_Collected
ScenarioA_Play ==
    /\ PlayStep
    /\ Head(runQ).n = << ScenarioA_Collected >>
    /\ style[Head(runQ).el].transform \in
            { TransformText(Numeral(100), Numeral(0), Numeral(1), Numeral(1)),
              TransformText(Negative(100), Numeral(0), Numeral(1), Numeral(1)) }

\* C3 (as stated): in scenario A the revert write sets the transform to
\* translate(100px, 0px) scale(1, 1), the play write sets it to
\* translate(0px, 0px) scale(1, 1), and the opacity stays 1.
C3_ScenarioA_AsStated ==
    [][ /\ \A id \in Ids : ScenarioA_Pass(id) =>
            LET el == childData'[id].el
            IN  /\ style'[el].transform =
                      TransformText(Numeral(100), Numeral(0), Numeral(1), Numeral(1))
                /\ style'[el].opacity = << Numeral(1) >>
        /\ ScenarioA_Play =>
            LET el == Head(runQ).el
            IN  /\ style'[el].transform =
                      TransformText(Numeral(0), Numeral(0), Numeral(1), Numeral(1))
                /\ style'[el].opacity = << Numeral(1) >>
      ]_vars

\* C3 (amended): in scenario A the revert write sets the transform to
\* translate(-100px, 0px) scale(1, 1) (previous.left - current.left is -100),
\* the play write sets it to translate(0px, 0px) scale(1, 1), and the opacity
\* stays 1.
C3_ScenarioA ==
    [][ /\ \A id \in Ids : ScenarioA_Pass(id) =>
            LET el == childData'[id].el
            IN  /\ style'[el].transform =
                      TransformText(Negative(100), Numeral(0), Numeral(1), Numeral(1))
                /\ style'[el].opacity = << Numeral(1) >>
        /\ ScenarioA_Play =>
            LET el == Head(runQ).el
            IN  /\ style'[el].transform =
                      TransformText(Numeral(0), Numeral(0), Numeral(1), Numeral(1))
                /\ style'[el].opacity = << Numeral(1) >>
      ]_vars

\* The child of scenario A after its revert write, its play callback waiting.
C3_Witness ==
    \E id \in DOMAIN childData :
        /\ childData[id].data = ScenarioA_Collected
        /\ \E i \in 1..Len(frameQ) :
              /\ frameQ[i].kind = "play"
              /\ frameQ[i].el = childData[id].el
              /\ frameQ[i].n = << ScenarioA_Collected >>
        /\ style[childData[id].el].transform =
              TransformText(Negative(100), Numeral(0), Numeral(1), Numeral(1))
        /\ style[childData[id].el].opacity = << Numeral(1) >>

\* ------------------------------------------------------------------ C4

\* C4: under either tier of batchCallback, a play callback that can run (it is
\* a microtask, or belongs to the frame being run) has had a paint since the
\* revert write of its pass: the two writes fall into different frames, the
\* revert first.
C4_SeparateFrames ==
    /\ \A i \in 1..Len(microQ) : microQ[i].kind = "play" => microQ[i].painted
    /\ \A i \in 1..Len(runQ) : runQ[i].kind = "play" => runQ[i].painted

\* In the microtask tier, the play callback of a reverted child is about to
\* run in a frame, after a paint.
C4_Witness ==
    /\ UsesMicrotask
    /\ inFrame
    /\ microQ = << >>
    /\ runQ # << >>
    /\ Head(runQ).kind = "play"
    /\ Head(runQ).painted
    /\ style[Head(runQ).el].transform # << >>
    /\ transitionClassName \notin style[Head(runQ).el].classes

\* ------------------------------------------------------------------ C5

\* C5: while the element is connected and active, a change of the slotted
\* children or of the identity attribute of an observed child that no pass
\* has collected yet leads (the event loop being fair) to a state where a
\* pass has collected after it and _animationEnqueued is false again, unless
\* active is set to false first.
C5_EventuallyProcessed ==
    (connected /\ active /\ unseen) ~>
        (~active \/ (~unseen /\ ~animationEnqueued))

\* The host's two operations were a move of e1 to the end of the children,
\* made while connected, and a change of its layout; a pass has collected
\* after the move (it animated e1) and the element is idle.
C5_Witness ==
    /\ connected /\ active
    /\ budget = LiveHostSteps - 2
    /\ Len(slotted) > 1
    /\ slotted[Len(slotted)] = "e1"
    /\ style["e1"] # NoStyle
    /\ ~unseen
    /\ ~animationEnqueued
    /\ microQ = << >>

\* ------------------------------------------------------------------ C6

\* C6: in every pass a child whose identity is collected but not stored gets
\* no style write, no marker-class change and no play callback; in the first
\* pass after connection that is every child.
C6_NewIdentitySkip ==
    [][ PassStep =>
          \A id \in DOMAIN childData' \ DOMAIN childData :
             LET el == childData'[id].el
             IN  /\ style'[el] = style[el]
                 /\ \A cb \in NewFrameCallbacks : cb.el # el
                 /\ \A i \in 1..Len(microQ') : microQ'[i].kind = "play" =>
                                                  microQ'[i].el # el
      ]_vars

\* The first pass after connection has collected a child away from the
\* origin (the host's one operation so far moved it) and left it untouched.
C6_Witness ==
    /\ connected
    /\ window = [signals |-> 1, passes |-> 1]
    /\ budget = MaxHostSteps - 1
    /\ \E id \in DOMAIN childData :
          /\ childData[id].data.left = Px(100)
          /\ style[childData[id].el] = NoStyle
    /\ frameQ = << >> /\ runQ = << >>

\* ------------------------------------------------------------------ C7

\* C7: after every pass the keys of the stored map are exactly the identities
\* carried by the slotted HTMLElement children at the pass's collection; an
\* identity of the previous map that no live child carries is gone.
C7_DisappearedIdentityDrop ==
    [][ PassStep => DOMAIN childData' = LiveIds ]_vars

\* A child that was tracked and animated has left the slot, and a pass has
\* stored a map without its identity.
C7_Witness ==
    /\ connected
    /\ ~InSlot("e2")
    /\ style["e2"] # NoStyle
    /\ attr["e2"][attrName] = "b"
    /\ DOMAIN childData = {"a"}
    /\ ~animationEnqueued /\ ~unseen
    /\ microQ = << >>

\* ------------------------------------------------------------------ C8

C10_Cancellation ==
    [][ (PassStep /\ ~active) => (AnimatesNothing /\ observed' = observed) ]_vars

\* ------------------------------------------------------------------ C11

\* Nothing of the element is scheduled or running: no cycle is pending, no
\* callback waits in a queue and no frame is being run (the element sets no
\* timers).
NothingInFlight ==
    /\ ~animationEnqueued
    /\ microQ = << >> /\ frameQ = << >> /\ runQ = << >>
    /\ ~inFrame

\* C11: the marker class a play callback adds is removed again, so that once
\* nothing of the element is in flight no child carries the marker class.
C11_Cleanup ==
    NothingInFlight => \A el \in El : transitionClassName \notin style[el].classes

\* ------------------------------------------------------------------ C12

\* The slotted element at position i is collected by a pass under identity
\* id (no later sibling carries the same identity) and passes the change test
\* against the stored snapshot.
ShouldAnimate(i, id) ==
    /\ IsHTMLElement(slotted[i])
    /\ attr[slotted[i]][attrName] = id
    /\ \A j \in (i + 1)..Len(slotted) :
          IsHTMLElement(slotted[j]) => attr[slotted[j]][attrName] # id
    /\ id \in DOMAIN childData
    /\ ~Unchanged(childData[id].data, ChildDataOf(slotted[i]))

\* C12: when a read or write primitive throws for one child during a pass,
\* every other child of the pass that passes the change test (and whose own
\* primitives work) is still reverted and still gets its play callback.
C12_FailureIsolation ==
    [][ PassStep =>
          \A i \in 1..Len(slotted), id \in Ids :
             (ShouldAnimate(i, id) /\ throwing[slotted[i]] = "none") =>
                LET previous == childData[id].data
                    current  == ChildDataOf(slotted[i])
                IN  /\ \E cb \in NewFrameCallbacks : cb.el = slotted[i]
                    /\ style'[slotted[i]].transform =
                          generateTransformString(previous.left - current.left,
                                                  previous.top - current.top,
                                                  previous.scaleX, previous.scaleY)
      ]_vars

\* ------------------------------------------------------------------ C13

\* C13: at the end of every pass the stored map is the map collected in that
\* pass (the live children's identities with what the layout source reports
\* for them), whether the pass animated no child, some or all.
C13_SnapshotAdvances ==
    [][ PassStep => childData' = LiveSnapshot ]_vars

\* A pass animated one child and skipped the other, and the stored map is the
\* live snapshot of both, the moved child at its new place.
C13_Witness ==
    /\ connected
    /\ ~animationEnqueued
    /\ NothingChanged
    /\ DOMAIN childData = {"a", "b"}
    /\ childData = LiveSnapshot
    /\ \E id \in DOMAIN childData :
          /\ childData[id].data.left = Px(100)
          /\ style[childData[id].el].transform # << >>
    /\ \E id \in DOMAIN childData : style[childData[id].el] = NoStyle

\* ------------------------------------------------------------------ C14

\* A callback of the given kind runs, as a microtask or in the running frame.
CallbackStep(kind) ==
    /\ budget' = budget /\ connected' = connected
    /\ \/ microQ # << >> /\ Head(microQ).kind = kind /\ microQ' # microQ
       \/ /\ microQ = << >> /\ inFrame /\ runQ # << >>
          /\ Head(runQ).kind = kind /\ runQ' = Tail(runQ)

\* C14: the callback scheduled by refresh() replaces the stored map by a
\* freshly collected one (before connectedCallback there is no slot to
\* collect from and the map stays as it is); it writes no transform, opacity
\* or marker class, requests no play callback and schedules no cycle.
C14_RefreshDoesNotAnimate ==
    [][ CallbackStep("refresh") =>
          /\ childData' = IF connected THEN LiveSnapshot ELSE childData
          /\ style' = style
          /\ NewFrameCallbacks = {}
          /\ Pending("play")' = Pending("play")
          /\ animationEnqueued' = animationEnqueued
      ]_vars

\* The host's two operations were a layout change and refresh(): the stored
\* map holds the child at its new place and no child was written to.
C14_Witness ==
    /\ connected
    /\ budget = MaxHostSteps - 2
    /\ store.refreshed /\ NothingChanged
    /\ childData = LiveSnapshot
    /\ \E id \in DOMAIN childData : childData[id].data.left = Px(100)
    /\ \A el \in El : style[el] = NoStyle
    /\ Pending("play") = 0

\* ------------------------------------------------------------------ C15

\* The callbacks waiting in any queue.
InFlight == Len(microQ) + Len(frameQ) + Len(runQ)

C16_InactiveMeansDeaf ==
    /\ [](~active => (~listening /\ observed = {} /\ ~moRecords))
    /\ [][ (~active /\ ~active') =>
               /\ animationEnqueued' => animationEnqueued
               /\ Pending("pass")' <= Pending("pass")
       ]_vars

\* The element is connected and inactive, its children differ from the stored
\* snapshot (a structural change or an identity attribute mutation since the
\* last pass), the slotchange event and the observer's notification have had
\* their turn, and no cycle is pending.
C16_Witness ==
    /\ connected /\ ~active
    /\ store.stored /\ store.domChanged
    /\ ~slotSignal /\ NothingInFlight
    /\ ~animationEnqueued

\* ------------------------------------------------------------------ C17

\* The child has an entry in the stored map.
Tracked(map, el) == \E id \in DOMAIN map : map[id].el = el

\* The child is assigned to the slot and lacks the identity attribute.
Unmarked(el) == InSlot(el) /\ attr[el][attrName] = NoId

\* The host removes the identity attribute of el.
RemovesIdentity(el) ==
    /\ attr[el][attrName] # NoId
    /\ attr'[el][attrName] = NoId
    /\ budget' < budget

\* C17: a pass ignores every slotted child that lacks the identity attribute:
\* the child is absent from the map the pass stores, the pass writes none of
\* its transform, opacity and classes and requests no play callback for it,
\* whether or not the child was tracked before.  Removing the identity
\* attribute of an observed child queues a mutation record, and delivering
\* the record schedules the pass that drops the child.
C17_UnmarkedIgnored ==
    [][ /\ PassStep =>
            \A el \in El : Unmarked(el) =>
                /\ ~Tracked(childData', el)
                /\ style'[el] = style[el]
                /\ \A cb \in NewFrameCallbacks : cb.el # el
                /\ NoId \notin DOMAIN childData'
        /\ \A el \in observed : RemovesIdentity(el) =>
                moRecords' /\ Pending("notify")' > 0
        /\ (CallbackStep("notify") /\ moRecords) => animationEnqueued'
      ]_vars

\* A child that was tracked and animated (it carries the marker class) has
\* lost its identity attribute, and a pass has run since: the child is still
\* in the slot, the stored map has no entry for it, and nothing is pending.
C17_Witness ==
    /\ connected /\ active /\ attrName = DefaultAttrName
    /\ NothingInFlight /\ ~animationEnqueued
    /\ store.stored /\ NothingChanged
    /\ \E el \in El :
          /\ Unmarked(el)
          /\ transitionClassName \in style[el].classes
          /\ ~Tracked(childData, el)

\* ------------------------------------------------------------------ C18

\* C18: an in-flight animation keeps the configuration of its pass: the play
\* callback adds the class name that was in force when the pass ran and sets
\* the cleanup timer to the duration in force then, and the cleanup removes
\* that same class name, whatever the host has set since.
C18_ConfigPerCycle ==
    [][ /\ ( /\ inFrame /\ runQ # << >> /\ Head(runQ).kind = "play"
             /\ runQ' = Tail(runQ) ) =>
               /\ style'[Head(runQ).el].classes =
                      style[Head(runQ).el].classes \cup {Head(runQ).cls}
               /\ timers'[Len(timers')].delay = Head(runQ).dur
        /\ \A i \in 1..Len(timers) :
               (timers' = RemoveAt(timers, i)) =>
                   style'[timers[i].el].classes =
                       style[timers[i].el].classes \ {timers[i].cls}
      ]_vars

\* ------------------------------------------------------------------ C19

\* A call into the element from the host or the browser's event delivery:
\* connectedCallback, a setter, refresh(), a dom-change event, or the delivery
\* of mutation records and slotchange.
CallStep ==
    \/ budget' < budget
    \/ ~connected /\ connected'
    \/ CallbackStep("notify")

\* C19: a call into the element (a change signal, a setter, refresh()) leaves
\* the stored map and every child's transform, opacity and classes as they
\* were; the stored map changes only in a deferred callback of a pass or of
\* refresh(), and styles only in a deferred pass or play callback.
C19_NonBlocking ==
    [][ /\ CallStep => (childData' = childData /\ style' = style)
        /\ childData' # childData =>
               (CallbackStep("pass") \/ CallbackStep("refresh"))
        /\ style' # style =>
               (CallbackStep("pass") \/ CallbackStep("play"))
      ]_vars

\* A signal has been handled and refresh() called since the children last
\* changed: a pass and a refresh callback are waiting, and the stored map is
\* still the one from before the change.
C19_Witness ==
    /\ connected /\ active
    /\ store.stored /\ store.layoutChanged
    /\ animationEnqueued
    /\ Pending("pass") = 1 /\ Pending("refresh") = 1
    /\ childData # LiveSnapshot

\* ------------------------------------------------------------------ C20

\* C20: in both tiers of batchCallback the play callbacks are animation frame
\* callbacks: the microtask queue never holds one, a pass requests one frame
\* callback per child it animates, and a play callback runs only as a
\* callback of a running frame.
C20_PlayFrameTimed ==
    /\ [](\A i \in 1..Len(microQ) : microQ[i].kind # "play")
    /\ [][ /\ PassStep =>
                /\ CountKind(frameQ', "play") - CountKind(frameQ, "play")
                       = Len(AnimatedEntries(collectChildData))
                /\ CountKind(microQ', "play") = 0
           /\ CallbackStep("play") => (inFrame /\ microQ = << >>)
       ]_vars

\* In the microtask tier a pass has run as a microtask and reverted a child,
\* and the child's play callback waits for the next animation frame.
C20_Witness ==
    /\ UsesMicrotask
    /\ ~inFrame /\ microQ = << >>
    /\ \E i \in 1..Len(frameQ) :
          /\ frameQ[i].kind = "play"
          /\ style[frameQ[i].el].transform # << >>
          /\ transitionClassName \notin style[frameQ[i].el].classes

\* ------------------------------------------------------------------ C21

\* The play callbacks of one pass sit next to each other in one queue: a play
\* callback that is not the first of its pass follows a play callback, or is
\* at the head of the running frame (the one before it has run in this frame).
BatchesTogether ==
    /\ \A i \in 1..Len(frameQ) :
          (frameQ[i].kind = "play" /\ ~frameQ[i].first) =>
              (i > 1 /\ frameQ[i - 1].kind = "play")
    /\ \A i \in 1..Len(runQ) :
          (runQ[i].kind = "play" /\ ~runQ[i].first) =>
              (inFrame /\ (i = 1 \/ runQ[i - 1].kind = "play"))
    /\ \A i \in 1..Len(microQ) : microQ[i].kind # "play"

\* Some play callbacks of a pass have run in the running frame and the next
\* one of the same pass has not.
MidBatch ==
    inFrame /\ runQ # << >> /\ Head(runQ).kind = "play" /\ ~Head(runQ).first

\* C21 as stated: the play callbacks of one pass run in the same animation
\* frame, and no pass runs between the first and the last of them.
C21_SameFrameStart_AsStated ==
    /\ []BatchesTogether
    /\ [][PassStep => ~MidBatch]_vars

\* C21 (amended): the play callbacks of one pass run in the same animation
\* frame; with frame-timed collection no pass runs between the first and the
\* last of them, and a pass that does run between them is a microtask-timed
\* one.
C21_SameFrameStart ==
    /\ []BatchesTogether
    /\ [][(PassStep /\ MidBatch) => UsesMicrotask]_vars

\* Two children were reverted by one pass; the play callback of the first has
\* run in the running frame and that of the second is next.
C21_Witness ==
    /\ MidBatch
    /\ transitionClassName \notin style[Head(runQ).el].classes
    /\ style[Head(runQ).el].transform # << >>
    /\ \E el \in El \ {Head(runQ).el} :
          transitionClassName \in style[el].classes

\* ------------------------------------------------------------------ C22

\* The entries of a collected map for one identity.
EntriesFor(map, id) == {i \in 1..Len(map) : map[i].id = id}

\* C22: whatever identities the slotted children carry, the map that
\* _collectChildData builds has exactly one entry for each identity some
\* slotted child carries and none for any other, and the entry holds the
\* element and the geometry of the last such child in slot order.
C22_DuplicateIdentities ==
    \A id \in Ids :
        IF id \in LiveIds
        THEN /\ Cardinality(EntriesFor(collectChildData, id)) = 1
             /\ \A i \in EntriesFor(collectChildData, id) :
                   /\ collectChildData[i].el = LastCarrier(id)
                   /\ collectChildData[i].data = ChildDataOf(LastCarrier(id))
        ELSE EntriesFor(collectChildData, id) = {}

\* Both elements are slotted and carry the same identity, the first with a
\* geometry of its own, and a pass has stored the map since: the entry is the
\* second element's.
C22_Witness ==
    /\ connected /\ store.stored /\ NothingChanged
    /\ slotted = << "e1", "t1", "e2" >>
    /\ attr["e1"][attrName] = attr["e2"][attrName]
    /\ attr["e1"][attrName] # NoId
    /\ layout["e1"] # layout["e2"]
    /\ childData[attr["e1"][attrName]].el = "e2"

\* ------------------------------------------------------------------ C23

\* The pass of this step leaves the child that carries identity id alone: no
\* style write, no marker-class change, no play callback.
TreatedAsNew(id) ==
    /\ style'[LastCarrier(id)] = style[LastCarrier(id)]
    /\ \A cb \in NewFrameCallbacks : cb.el # LastCarrier(id)

\* C23 as stated: an identity that no child carried at the last completed
\* pass and that a child carries at this pass is treated as new.
C23_LeaveAndReenter_AsStated ==
    [][ PassStep => \A id \in store.absent \cap LiveIds : TreatedAsNew(id) ]_vars

\* C23 (amended): an identity that no child carried at the last completed
\* pass, that no refresh() callback has collected since, and that a child
\* carries at this pass is treated as new, whatever geometry was stored for
\* it before it left.
C23_LeaveAndReenter ==
    [][ PassStep =>
          \A id \in (store.absent \ store.regained) \cap LiveIds :
              TreatedAsNew(id)
      ]_vars

\* No child carried identity b at one completed pass; at the next a child away
\* from the origin carried it, and that pass has stored it there and left the
\* child untouched.
C23_Witness ==
    /\ connected /\ active
    /\ "b" \in store.reentered
    /\ "b" \in DOMAIN childData
    /\ childData["b"].data.left # 0
    /\ style[childData["b"].el] = NoStyle
    /\ NothingChanged /\ ~store.refreshed
    /\ NothingInFlight

\* ------------------------------------------------------------------ C24

\* _enqueueAnimateChangedElements() is called in this step (a call opens a
\* window or counts as one more signal of the open one).
EnqueueCalled ==
    \/ window'.signals > window.signals
    \/ window' # window /\ window'.signals = 1 /\ window'.passes = 0

\* C24: the scheduled callback clears the pending flag before it collects:
\* after the callback the flag is false whether the pass ran to its end or a
\* primitive threw in it, and a call of _enqueueAnimateChangedElements that
\* finds the flag false sets it and schedules one pass.
C24_FlagClearedFirst ==
    [][ /\ CallbackStep("pass") => ~animationEnqueued'
        /\ (EnqueueCalled /\ ~animationEnqueued) =>
               /\ animationEnqueued'
               /\ Pending("pass")' = Pending("pass") + 1
      ]_vars

\* The first pass after connection has run and thrown (nothing was stored),
\* and the pending flag is false.
C24_Witness ==
    /\ connected /\ active
    /\ window.passes = 1
    /\ ~store.stored
    /\ \E el \in El : ReadThrows(el) /\ InSlot(el) /\ attr[el][attrName] # NoId
    /\ Pending("pass") = 0
    /\ ~animationEnqueued

\* ------------------------------------------------------------------ C25

\* The revert written to el in this step is computed from the entry that the
\* map stored before the step holds for el's identity.
RevertFromStored(el) ==
    \E id \in DOMAIN childData :
        /\ attr[el][attrName] = id
        /\ style'[el].transform =
              generateTransformString(
                  childData[id].data.left - ChildDataOf(el).left,
                  childData[id].data.top - ChildDataOf(el).top,
                  childData[id].data.scaleX, childData[id].data.scaleY)

\* C25: the stored map changes only as a whole: a step either leaves it as
\* it is (every step that is no pass or refresh callback, and a pass aborted
\* by a throwing read or write) or replaces it by the complete map collected
\* in that step; and every revert of a pass is computed from the map stored
\* before the pass.
C25_AtomicReplacement ==
    [][ /\ \/ childData' = childData
            \/ /\ childData' = LiveSnapshot
               /\ \/ CallbackStep("pass") /\ PassCompletes
                  \/ CallbackStep("refresh")
        /\ CallbackStep("pass") =>
               \A cb \in NewFrameCallbacks : RevertFromStored(cb.el)
      ]_vars

\* A pass was aborted by the throwing style write of a moved child: the
\* stored map is still the complete map of the pass before, with the child at
\* its old place, not the live one.
C25_Witness ==
    /\ connected /\ active
    /\ store.aborted /\ store.stored
    /\ childData # LiveSnapshot
    /\ \E id \in DOMAIN childData :
          /\ WriteThrows(childData[id].el)
          /\ id \in LiveIds
          /\ childData[id].data # LiveSnapshot[id].data
    /\ NothingInFlight

\* ------------------------------------------------------------------ C26

\* C26: opacity is not part of the change test: a pass treats a child present
\* in both maps whose top, left and scales are unchanged within the tolerance
\* and whose opacity differs as unchanged: it writes none of the child's
\* styles, requests no play callback for it, and stores the collected entry,
\* which differs from the one stored before in its opacity.
C26_OpacityNotTested ==
    [][ CallbackStep("pass") /\ connected =>
          \A id \in DOMAIN childData \cap LiveIds :
              OnlyOpacityDiffers(id) =>
                  /\ style'[LastCarrier(id)] = style[LastCarrier(id)]
                  /\ \A cb \in NewFrameCallbacks : cb.el # LastCarrier(id)
                  /\ id \in DOMAIN childData'
                  /\ childData'[id].el = LastCarrier(id)
                  /\ childData'[id].data = LiveSnapshot[id].data
                  /\ childData'[id].data.opacity # childData[id].data.opacity
      ]_vars

\* A completed pass has just stored a new opacity for a child it had stored
\* before, and neither wrote the child's styles nor requested a play callback.
C26_Witness ==
    /\ connected /\ active
    /\ store.stored /\ ~store.refreshed /\ ~store.layoutChanged
    /\ \E id \in store.faded \cap DOMAIN childData \cap LiveIds :
          /\ childData[id].data.opacity = One \div 2
          /\ childData[id].data = LiveSnapshot[id].data
          /\ style[childData[id].el] = NoStyle
    /\ NothingInFlight

\* ------------------------------------------------------------------ C27

\* C27: in every reachable state _animationEnqueued is true if and only if
\* exactly one collection+diff callback of the element is scheduled and has
\* not fired yet, and there are never two such callbacks outstanding.
C27_PendingFlag ==
    /\ Pending("pass") <= 1
    /\ animationEnqueued <=> Pending("pass") = 1

\* A cycle is pending, with its one callback, after a pass that threw and
\* while a refresh or play callback of the element is outstanding as well.
C27_Witness ==
    /\ store.aborted
    /\ animationEnqueued
    /\ Pending("pass") = 1
    /\ Pending("refresh") + Pending("play") >= 1

\* ------------------------------------------------------------------ C28

\* Every tracked child's stored top, left and scales equal its measured ones,
\* and the tracked children are the live ones.
StoredGeometryFresh ==
    /\ DOMAIN childData = LiveIds
    /\ \A id \in LiveIds :
          /\ childData[id].el = LiveSnapshot[id].el
          /\ [childData[id].data EXCEPT !.opacity = One]
                = [LiveSnapshot[id].data EXCEPT !.opacity = One]

RequestedLater == Tail(runQ) \o frameQ

\* A later pass has reverted the child of the play callback that is about to
\* run, and no frame has been painted since that revert.
NewerRevertUnpainted ==
    \E i \in 1..Len(RequestedLater) :
        /\ RequestedLater[i].kind = "play"
        /\ RequestedLater[i].el = Head(runQ).el
        /\ ~RequestedLater[i].painted

\* C29: when a later pass has reverted a child before the play callback of an
\* earlier pass for that child runs, and no frame has been painted with the
\* later revert, the earlier play callback leaves the child's styles as the
\* later revert wrote them.
C29_NoStalePlay ==
    [][ (PlayStep /\ NewerRevertUnpainted) =>
            style'[Head(runQ).el] = style[Head(runQ).el] ]_vars

\* ------------------------------------------------------------------ C30

\* The cleanup timer at position i fires in this step.
TimerStep(i) == timers' = RemoveAt(timers, i)

\* A play phase of the same child that started after the one which armed
\* timer i is still within its duration: its own timer has not fired yet.
LaterPlayRunning(i) ==
    \E j \in (i + 1)..Len(timers) : timers[j].el = timers[i].el

\* C30: a cleanup timer armed by an earlier play phase does not remove the
\* marker class from a child while a later play phase of that child is within
\* its duration: the class stays until the most recent play phase's timer.
C30_TimersDoNotCut ==
    [][ \A i \in 1..Len(timers) :
            (TimerStep(i) /\ LaterPlayRunning(i)) =>
                style'[timers[i].el].classes = style[timers[i].el].classes
      ]_vars

\* ------------------------------------------------------------------ C31

\* C31: the diff is keyed by identity, not by element: a pass reverts the
\* element that carries an identity now from the geometry stored under that
\* identity, and requests its play callback with the geometry measured now,
\* also when the stored entry was recorded from another element.
C31_KeyedByIdentity ==
    [][ (CallbackStep("pass") /\ connected) =>
          \A id \in DOMAIN childData \cap LiveIds :
              ~Unchanged(childData[id].data, LiveSnapshot[id].data) =>
                  /\ style'[LastCarrier(id)].transform = generateTransformString(
                         childData[id].data.left - LiveSnapshot[id].data.left,
                         childData[id].data.top - LiveSnapshot[id].data.top,
                         childData[id].data.scaleX, childData[id].data.scaleY)
                  /\ style'[LastCarrier(id)].opacity
                        = << NumToString(childData[id].data.opacity) >>
                  /\ \E cb \in NewFrameCallbacks :
                        /\ cb.el = LastCarrier(id)
                        /\ cb.n = << LiveSnapshot[id].data >>
      ]_vars

\* A completed pass found an identity on another element than the one it was
\* stored from: that element, still at its initial layout, carries the revert
\* from the other element's position and waits for its play callback.
C31_Witness ==
    /\ connected
    /\ ~store.layoutChanged /\ ~store.domChanged
    /\ \E id \in store.rekeyed \cap DOMAIN childData :
          /\ childData[id].el = LastCarrier(id)
          /\ layout[childData[id].el] = InitialLayout
          /\ style[childData[id].el].transform # << >>
          /\ transitionClassName \notin style[childData[id].el].classes
          /\ \E i \in 1..Len(frameQ) :
                frameQ[i].kind = "play" /\ frameQ[i].el = childData[id].el

\* ------------------------------------------------------------------ C32

\* The host sets active to false / back to true on the connected element.
Deactivates == connected /\ active /\ ~active'
Reactivates == connected /\ ~active /\ active'

\* Setting active to false leaves the stored map as it is.
DeactivationKeepsMap == [][ Deactivates => childData' = childData ]_vars

\* Setting active back to true leaves the stored map as it is and leaves
\* exactly one pass scheduled.
ReactivationSchedulesOnePass ==
    [][ Reactivates =>
          /\ childData' = childData
          /\ animationEnqueued'
          /\ CountKind(microQ', "pass") + CountKind(frameQ', "pass")
                + CountKind(runQ', "pass") = 1
      ]_vars

\* While the element is inactive nothing but a refresh() the host asked for
\* replaces the stored map: the pass after re-activation diffs against the
\* map of before the deactivation.
InactiveKeepsMap ==
    [][ (connected /\ ~active /\ ~active' /\ ~CallbackStep("refresh"))
            => childData' = childData ]_vars

\* C32: deactivation keeps the snapshot: setting active to false leaves the
\* stored map unchanged, it stays unchanged while the element is inactive, and
\* setting active back to true schedules exactly one pass, which compares the
\* live layout with that map.
C32_DeactivationKeepsSnapshot ==
    /\ DeactivationKeepsMap
    /\ ReactivationSchedulesOnePass
    /\ InactiveKeepsMap

\* ------------------------------------------------------------------ C33

\* Before connectedCallback the stored map is empty and no cycle is pending.
InertBeforeConnection ==
    ~connected => (childData = << >> /\ ~animationEnqueued /\ Pending("pass") = 0)

\* C33: configuration before connection is safe: assigning active or attrName
\* or calling refresh() before connectedCallback raises no error and leaves
\* the stored map empty and the pending flag false.
C33_SafeBeforeConnection ==
    /\ InertBeforeConnection
    /\ ~store.noSlotError

\* ------------------------------------------------------------------ C34

\* The slotted children that are HTMLElements, with or without an identity.
SlottedElements ==
    {slotted[i] : i \in {j \in 1..Len(slotted) : IsHTMLElement(slotted[j])}}

\* C34: once every structural change has been handled (its slotchange event
\* delivered), the connected, active element observes exactly the slotted
\* HTMLElement children, filtered on the current attribute name; no removed
\* child and no earlier attribute name stays observed, and while inactive the
\* observed set is empty.
C34_ObservedFollowsChildren ==
    /\ (connected /\ active /\ ~slotSignal) =>
            (observed = SlottedElements /\ observedAttr = attrName)
    /\ ~active => observed = {}

\* A child that was collected and observed has been removed and the attribute
\* name changed; both are handled: the child is no longer observed, though the
\* stored map still holds it, and the filter is the new name.
C34_Witness ==
    /\ connected /\ active /\ ~slotSignal
    /\ \A i \in 1..Len(microQ) : microQ[i].kind # "notify"
    /\ attrName # DefaultAttrName /\ observedAttr = attrName
    /\ observed = SlottedElements
    /\ \E el \in El : ~InSlot(el) /\ el \notin observed /\ Tracked(childData, el)

\* ------------------------------------------------------------------ C35

\* C35: refresh() is independent of the scheduler: the call leaves the pending
\* flag and a scheduled pass as they are and schedules one collection of its
\* own, whether or not the element is active or a cycle is pending; its
\* callback leaves the flag and the scheduled pass alone as well; and a pass
\* that fires after the refresh callback, nothing having changed in between,
\* compares with the refreshed map and animates nothing.
C35_RefreshIndependent ==
    [][ /\ Refresh =>
              /\ animationEnqueued' = animationEnqueued
              /\ Pending("pass")' = Pending("pass")
              /\ Pending("refresh")' = Pending("refresh") + 1
        /\ CallbackStep("refresh") =>
              /\ animationEnqueued' = animationEnqueued
              /\ Pending("pass")' = Pending("pass")
              /\ Pending("refresh")' = Pending("refresh") - 1
        /\ (CallbackStep("pass") /\ store.refreshed /\ NothingChanged) =>
              (AnimatesNothing /\ ~animationEnqueued')
      ]_vars

\* The host changed a child's layout and called refresh(); the refresh callback
\* fired before the pass of a signal, and that pass has run: the child was
\* never written to and the stored map holds it at its new place.
C35_Witness ==
    /\ connected
    /\ store.afterRefresh
    /\ NothingInFlight
    /\ childData = LiveSnapshot
    /\ \E id \in DOMAIN childData :
          /\ layout[childData[id].el] # InitialLayout
          /\ style[childData[id].el] = NoStyle

====
